---- MODULE Spec2Model ----
(***************************************************************************)
(* Job orchestration of the Shorts Generator backend (src/app.js).         *)
(*                                                                         *)
(* app.js holds two server variants:                                       *)
(*   "db"   the database-backed server  (lines 1-659, Mongoose documents)  *)
(*   "file" the file-backed server      (lines 661-1225, users.json and    *)
(*          jobs.json read and rewritten whole)                            *)
(*                                                                         *)
(* Every request handler and every background pipeline is an async         *)
(* function: it runs atomically between two awaits, and other handlers     *)
(* run while it waits.  One action of this module is one such atomic       *)
(* stretch: the landing of the awaited call (a document save, a file read  *)
(* or write, an external tool run) followed by the synchronous code up to  *)
(* the next await.  Consecutive awaits that touch no stored state (two     *)
(* mkdirs; transcode, thumbnail, the two uploads and the stat of one       *)
(* segment; download and duration probe) are one action.                   *)
(*                                                                         *)
(* A slot s is one POST /api/jobs request together with the job it         *)
(* creates and that job's background pipeline.  The database-backed job    *)
(* has the id s (an ObjectId, unique); the file-backed job has the id      *)
(* 'job_' + Date.now(), the value of the clock when it was built.          *)
(*                                                                         *)
(* The clock is read lazily: an action that calls Date.now() first lets    *)
(* some milliseconds pass.  In Spec two submits never read the same        *)
(* millisecond; SpecIds lifts that, and SpecSweeper adds the daily cleanup *)
(* task of the database-backed server, which Spec leaves out.  The bucket  *)
(* holds the objects of the segment loops that ran to their end.           *)
(*                                                                         *)
(* POST /api/preview is one more request, followed in SpecPreview next to  *)
(* a submit; SpecLive is one job under the event loop's fairness.          *)
(***************************************************************************)
EXTENDS Integers, Sequences, FiniteSets, TLC

VARIABLES
  env,       \* the run's parameters: variant, faults, maxJobs, userIds
  users,     \* stored users: email -> credit balance (User collection / users.json)
  jobs,      \* stored jobs: job id -> job record (Job collection / jobs.json)
  pc,        \* slot -> position of the request / pipeline
  req,       \* slot -> request-local data (req.user snapshot, body, totalCost)
  segs,      \* slot -> the pipeline's in-memory segment list
  jobsBuf,   \* slot -> content of the jobs.json write in flight (file variant)
  usersBuf,  \* slot -> content of the user write in flight
  tempDir,   \* slot -> "none" | "named" | "created" | "removed"
  crashed,   \* an error left a background task (unhandled rejection: the process exits)
  regPc,     \* user -> position of its POST /api/register
  regBuf,    \* user -> content of the users.json write in flight
  refunds,   \* history: slot -> number of refund writes that landed for the job
  debits,    \* history: slot -> number of debit writes that landed for the job
  probe,     \* slot -> the source duration ffprobe returned to the pipeline (0: not probed)
  now,       \* the clock: the last value Date.now() returned, in milliseconds
  storage,   \* the bucket: the storage keys that hold an object
  sweep,     \* the cleanup task: its position, the jobs it selected, its history
  preview    \* the POST /api/preview in hand: its position, body and answer

vars == <<env, users, jobs, pc, req, segs, jobsBuf, usersBuf, tempDir,
          crashed, regPc, regBuf, refunds, debits, probe, now, storage, sweep, preview>>

----------------------------------------------------------------------------
(* Bounds of the model *)

\* jobs submitted in a run of Spec
MaxJobs == 2
\* jobs submitted in a run of SpecLedger
LedgerJobs == 5
\* requests being handled at the same time
MaxInFlight == 2
\* refunds after which the failure handler is not entered again (SpecHandler)
MaxHandlerRuns == 2
\* runs of the cleanup task in a run of SpecSweeper
MaxSweeps == 2
\* calls of POST /api/preview in a run of SpecPreview
MaxPreviews == 2

(* Program constants *)

InitialCredits == 100
FileTotalCost == 25
FileSegmentCount == 5
FileSegmentDuration == 30
DefaultPrice == 5
MinSegmentCount == 1
MaxSegmentCount == 20
\* 24 * 60 * 60 * 1000, the period of the cleanup task
Day == 86400000
\* the days in: new Date(Date.now() - 7 * 24 * 60 * 60 * 1000)
RetentionDays == 7
RetentionWindow == RetentionDays * Day

UserIds == {"u1", "u2"}

\* PRICES = { 15: 2, 30: 5, 60: 8 }
PRICES == (15 :> 2) @@ (30 :> 5) @@ (60 :> 8)

SegmentDurationEnum == {15, 30, 60}

\* Request bodies tried against the database-backed POST /api/jobs:
\* valid ones, one with a segment count above the schema's max, one with a
\* segment duration outside the schema's enum, one that costs more than 100.
DbInputs ==
  { [d |-> 30, n |-> 2,  subs |-> TRUE],
    [d |-> 15, n |-> 1,  subs |-> FALSE],
    [d |-> 15, n |-> 21, subs |-> FALSE],
    [d |-> 45, n |-> 1,  subs |-> FALSE],
    [d |-> 60, n |-> 13, subs |-> FALSE] }

\* The file-backed POST /api/jobs reads only youtubeUrl from the body.
FileInput == [d |-> FileSegmentDuration, n |-> FileSegmentCount, subs |-> FALSE]

\* The youtubeUrl of a request body: a YouTube address or some other text.
Urls == {"youtube", "other"}

\* youtubeUrl.includes('youtube.com') || youtubeUrl.includes('youtu.be')
IsYoutubeUrl(url) == url = "youtube"

\* The source durations ffprobe returns, in seconds: the five-minute video of
\* the handlers' fallback (duration: 300), and a short one.
LongVideo == 300
ShortVideo == 20

\* The parameters of a run: the variant of the server, whether external calls
\* may throw, the number of submits, the registering users, the youtubeUrls
\* and source durations tried, the milliseconds that may pass between two
\* readings of the clock by submits, the request bodies tried, the number of
\* runs of the cleanup task and the milliseconds that may pass before one.
Env(variant, faults, maxJobs, userIds) ==
  [variant |-> variant, faults |-> faults, maxJobs |-> maxJobs, userIds |-> userIds,
   urls |-> {"youtube"}, durations |-> {LongVideo}, gaps |-> {1},
   bodies |-> DbInputs, maxSweeps |-> 0, sweepGaps |-> {}]

NoKey == <<>>
NoReq == [owner |-> "", credits |-> 0, d |-> 0, n |-> 0, subs |-> FALSE,
          cost |-> 0, resp |-> 0, url |-> "", id |-> 0, createdAt |-> 0,
          balance |-> 0]
EmptyFile == <<>>

\* the cleanup task before its first run: pc its position, cutoff its
\* sevenDaysAgo, queue the documents of oldJobs from the one it is at;
\* history: runs counts its runs, selected holds the ids of the last oldJobs,
\* issued the keys a delete was sent for, threw the keys whose delete threw,
\* aborted whether the last run ended in the outer catch
NoSweep == [pc |-> "idle", cutoff |-> 0, queue |-> <<>>, runs |-> 0,
            selected |-> {}, issued |-> {}, threw |-> {}, aborted |-> FALSE]

\* no POST /api/preview yet: pc its position, owner and credits the req.user
\* of authMiddleware, d, n and url the body, resp the status answered,
\* totalCost and canAfford the data answered; history: runs counts the calls
NoPreview == [pc |-> "idle", owner |-> "", credits |-> 0, d |-> 0, n |-> 0,
              url |-> "", resp |-> 0, totalCost |-> 0, canAfford |-> FALSE,
              runs |-> 0]

Slots == 1..env.maxJobs

Terminal == {"done", "rejected", "error500"}

\* positions inside the POST /api/jobs handlers
HandlerPcs == {"debit", "create", "readJobs", "writeJobs", "readUsers", "writeUsers"}

\* the requests being handled
InFlight == {s \in Slots : pc[s] \in HandlerPcs}
Registering == {u \in UserIds : regPc[u] = "write"}
Room == Cardinality(InFlight) + Cardinality(Registering) < MaxInFlight

\* const costPerSegment = PRICES[segmentDuration] || 5;
CostPerSegment(d) == IF d \in DOMAIN PRICES THEN PRICES[d] ELSE DefaultPrice

\* NaN, the value of Number(segmentCount) for a segmentCount that is not
\* numeric ("abc"), and of every product, sum or difference with it; it
\* stands outside the counts, costs and balances of the runs, which are not -1
NaN == -1

\* const totalCost = costPerSegment * segmentCount;
TotalCost(d, n) == IF n = NaN THEN NaN ELSE CostPerSegment(d) * n

\* a < b and a >= b of the handlers: both are false when a side is NaN
Less(a, b) == a # NaN /\ b # NaN /\ a < b
GreaterEq(a, b) == a # NaN /\ b # NaN /\ a >= b

\* a - b of `req.user.credits -= totalCost`
Minus(a, b) == IF a = NaN \/ b = NaN THEN NaN ELSE a - b

\* JobSchema validators run by job.save()
SchemaValid(d, n) ==
  /\ d \in SegmentDurationEnum
  /\ n >= MinSegmentCount
  /\ n <= MaxSegmentCount

\* const segmentKey = `shorts/${jobId}/segment_${index}.mp4`;
DbSegmentKey(jobId, index) == <<"shorts", jobId, <<"segment", index>>>>

\* const thumbKey = `shorts/${jobId}/thumb_${index}.jpg`;
DbThumbKey(jobId, index) == <<"shorts", jobId, <<"thumb", index>>>>

\* const videoKey = `users/${job.userId}/${job.id}/short_${i + 1}.mp4`;
FsVideoKey(userId, jobId, index) == <<"users", userId, jobId, <<"short", index>>>>

\* const thumbKey = `users/${job.userId}/${job.id}/thumb_${i + 1}.jpg`;
FsThumbKey(userId, jobId, index) == <<"users", userId, jobId, <<"thumb", index>>>>

\* a field a segment entry does not have
NoTime == -1

\* StartTime with the turn's own number in place of the turns before it
StartTimeOfNext(D, N, index) == (D \div N) * index

\* const segmentSpacing = videoDuration / totalSegments;
\* const startTime = (index - 1) * segmentSpacing;
\* (the durations tried are whole seconds the count divides, where / is \div)
StartTime(D, N, index) == (D \div N) * (index - 1)

\* generateMockSubtitles(segmentDuration, segmentCount)
RECURSIVE generateMockSubtitles(_)
generateMockSubtitles(n) ==
  IF n <= 0 THEN <<>>
  ELSE Append(generateMockSubtitles(n - 1),
              [index |-> n, startTime |-> NoTime, duration |-> NoTime,
               storageKey |-> NoKey, thumbnailKey |-> NoKey])

\* AssignSegment with the entry always pushed, whatever the list holds at i
AssignSegmentPush(list, i, segment) == Append(list, segment)

\* job.segments[i] = job.segments[i] || {}; Object.assign(job.segments[i], segment);
AssignSegment(list, i, segment) ==
  IF i + 1 <= Len(list) THEN [list EXCEPT ![i + 1] = segment]
  ELSE Append(list, segment)

\* the segment processSegment returns (thumbnailKey is its thumbnailUrl)
processSegment(jobId, index, segmentDuration, totalSegments, videoDuration) ==
  [index |-> index,
   startTime |-> StartTime(videoDuration, totalSegments, index),
   duration |-> segmentDuration,
   storageKey |-> DbSegmentKey(jobId, index),
   thumbnailKey |-> DbThumbKey(jobId, index)]

\* for (let i = 0; i < job.segmentCount; i++) { ... } of the database-backed pipeline
RECURSIVE DbSegmentLoop(_, _, _, _, _, _)
DbSegmentLoop(list, i, n, jobId, S, D) ==
  IF i >= n THEN list
  ELSE DbSegmentLoop(AssignSegment(list, i, processSegment(jobId, i + 1, S, n, D)),
                     i + 1, n, jobId, S, D)

\* for (let i = 0; i < segmentCount; i++) { ... segments.push({...}) } of the
\* file-backed pipeline; const startTime = (duration / segmentCount) * i;
RECURSIVE FsSegmentLoop(_, _, _, _, _, _)
FsSegmentLoop(list, i, n, userId, jobId, D) ==
  IF i >= n THEN list
  ELSE FsSegmentLoop(
         Append(list, [index |-> i + 1,
                       startTime |-> StartTime(D, n, i + 1),
                       duration |-> FileSegmentDuration,
                       storageKey |-> FsVideoKey(userId, jobId, i + 1),
                       thumbnailKey |-> FsThumbKey(userId, jobId, i + 1)]),
         i + 1, n, userId, jobId, D)

\* the objects a finished segment list has put into the bucket
UploadedKeys(list) ==
  {list[i].storageKey : i \in 1..Len(list)} \cup {list[i].thumbnailKey : i \in 1..Len(list)}

\* the job a submit builds: id is its _id (database-backed) or 'job_' + Date.now()
\* (file-backed), pos its place in the collection, createdAt the clock's value
NewJob(id, pos, owner, d, n, cost, createdAt) ==
  [id |-> id, pos |-> pos, owner |-> owner, status |-> "pending", creditsUsed |-> cost,
   segmentDuration |-> d, segmentCount |-> n, segments |-> <<>>,
   completedAt |-> FALSE, error |-> FALSE, createdAt |-> createdAt]

\* one more than the highest place taken in a collection
NextPos(file) ==
  IF DOMAIN file = {} THEN 1
  ELSE 1 + (CHOOSE m \in {file[k].pos : k \in DOMAIN file} :
              \A k \in DOMAIN file : file[k].pos <= m)

\* jobs.findIndex(j => j.id === job.id): the first record of the array with
\* that id (0 stands for -1)
FindIndex(file, id) ==
  LET hits == {k \in DOMAIN file : file[k].id = id}
  IN IF hits = {} THEN 0
     ELSE CHOOSE k \in hits : \A h \in hits : file[k].pos <= file[h].pos

----------------------------------------------------------------------------
(* Initial state: empty stores, no request started. *)

InitWith(e) ==
  /\ env = e
  /\ users = EmptyFile
  /\ jobs = EmptyFile
  /\ pc = [s \in 1..e.maxJobs |-> "idle"]
  /\ req = [s \in 1..e.maxJobs |-> NoReq]
  /\ segs = [s \in 1..e.maxJobs |-> <<>>]
  /\ jobsBuf = [s \in 1..e.maxJobs |-> EmptyFile]
  /\ usersBuf = [s \in 1..e.maxJobs |-> EmptyFile]
  /\ tempDir = [s \in 1..e.maxJobs |-> "none"]
  /\ crashed = FALSE
  /\ regPc = [u \in UserIds |-> "idle"]
  /\ regBuf = [u \in UserIds |-> EmptyFile]
  /\ refunds = [s \in 1..e.maxJobs |-> 0]
  /\ debits = [s \in 1..e.maxJobs |-> 0]
  /\ probe = [s \in 1..e.maxJobs |-> 0]
  /\ now = 0
  /\ storage = {}
  /\ sweep = NoSweep
  /\ preview = NoPreview

Init ==
  \E v \in {"db", "file"} : InitWith(Env(v, TRUE, MaxJobs, UserIds))

----------------------------------------------------------------------------
(* Helpers for the actions *)

Goto(s, p) == pc' = [pc EXCEPT ![s] = p]

Running(s, p) == ~crashed /\ s \in Slots /\ pc[s] = p

\* the outcomes of an external call: it returns, or (when the run has faults) it throws
Outcomes == IF env.faults THEN {TRUE, FALSE} ELSE {TRUE}

\* Date.now(): some milliseconds have passed since the clock was last read
Elapse(dts) == \E dt \in dts : now' = now + dt

\* the next request takes the lowest unused slot
NextSlot(s) ==
  /\ s \in Slots
  /\ pc[s] = "idle"
  /\ \A t \in Slots : t < s => pc[t] # "idle"
  /\ Room

----------------------------------------------------------------------------
(* Database-backed variant: POST /api/register *)

DbRegister(u) ==
  /\ ~crashed
  /\ env.variant = "db"
  /\ u \in env.userIds
  /\ regPc[u] = "idle"
  /\ u \notin DOMAIN users
  /\ users' = (u :> InitialCredits) @@ users
  /\ regPc' = [regPc EXCEPT ![u] = "done"]
  /\ UNCHANGED <<env, preview, probe, now, storage, sweep, jobs, pc, req, segs, jobsBuf, usersBuf, tempDir,
                 crashed, regBuf, refunds, debits>>

----------------------------------------------------------------------------
(* Database-backed variant: POST /api/jobs *)

\* authMiddleware's User.findById lands; the handler runs to `await req.user.save()`
DbSubmitAuth(s, u, in) ==
  /\ ~crashed
  /\ env.variant = "db"
  /\ NextSlot(s)
  /\ u \in DOMAIN users
  /\ in \in env.bodies
  /\ \E url \in env.urls :
     LET cost == TotalCost(in.d, in.n)
         r == [owner |-> u, credits |-> users[u], d |-> in.d, n |-> in.n,
               subs |-> in.subs, cost |-> cost, resp |-> 0, url |-> url,
               id |-> s, createdAt |-> 0, balance |-> users[u]]
     IN IF Less(users[u], cost)
        THEN /\ req' = [req EXCEPT ![s] = [r EXCEPT !.resp = 402]]
             /\ Goto(s, "rejected")
        ELSE /\ req' = [req EXCEPT ![s] = [r EXCEPT !.credits = Minus(users[u], cost)]]
             /\ Goto(s, "debit")
  /\ UNCHANGED <<env, preview, probe, now, storage, sweep, users, jobs, segs, jobsBuf, usersBuf, tempDir,
                 crashed, regPc, regBuf, refunds, debits>>

\* req.user.save() lands (or throws; it throws for credits NaN, which the
\* schema's Number does not take); new Job(...) is built, with createdAt
\* defaulting to Date.now(), and job.save() issued
DbSubmitDebit(s) ==
  /\ Running(s, "debit")
  /\ env.variant = "db"
  /\ \E ok \in Outcomes :
       IF ok /\ req[s].credits # NaN
       THEN /\ users' = [users EXCEPT ![req[s].owner] = req[s].credits]
            /\ debits' = [debits EXCEPT ![s] = @ + 1]
            /\ Elapse(env.gaps)
            /\ req' = [req EXCEPT ![s].createdAt = now']
            /\ Goto(s, "create")
       ELSE /\ req' = [req EXCEPT ![s].resp = 500]
            /\ Goto(s, "error500")
            /\ UNCHANGED <<users, debits, now>>
  /\ UNCHANGED <<env, preview, probe, storage, sweep, jobs, segs, jobsBuf, usersBuf, tempDir,
                 crashed, regPc, regBuf, refunds>>

\* job.save() validates and inserts (or throws); processJobInBackground(job._id)
\* runs to its first await and the response is sent
DbSubmitCreate(s) ==
  /\ Running(s, "create")
  /\ env.variant = "db"
  /\ \E ok \in Outcomes :
       IF ok /\ SchemaValid(req[s].d, req[s].n)
       THEN /\ jobs' = (s :> NewJob(req[s].id, s, req[s].owner, req[s].d, req[s].n,
                                    req[s].cost, req[s].createdAt)) @@ jobs
            /\ req' = [req EXCEPT ![s].resp = 200]
            /\ Goto(s, "find")
       ELSE /\ req' = [req EXCEPT ![s].resp = 500]
            /\ Goto(s, "error500")
            /\ UNCHANGED jobs
  /\ UNCHANGED <<env, preview, probe, now, storage, sweep, users, segs, jobsBuf, usersBuf, tempDir,
                 crashed, regPc, regBuf, refunds, debits>>

----------------------------------------------------------------------------
(* Database-backed variant: processJobInBackground(jobId) *)

\* an error thrown inside the try block: control passes to the catch block,
\* which logs and issues Job.findById
Throw(s) == Goto(s, "catchFind")

\* a pipeline that has ended forgets its locals
Forget(s) ==
  /\ segs' = [segs EXCEPT ![s] = <<>>]
  /\ usersBuf' = [usersBuf EXCEPT ![s] = EmptyFile]

\* an error thrown inside the catch block leaves the async function: nothing
\* handles the rejected promise
Escape(s) ==
  /\ crashed' = TRUE
  /\ Goto(s, "done")
  /\ Forget(s)

\* const job = await Job.findById(jobId); if (!job) return; job.status = 'downloading'
DbPlFind(s) ==
  /\ Running(s, "find")
  /\ env.variant = "db"
  /\ \E ok \in Outcomes :
       IF ~ok THEN Throw(s)
       ELSE IF s \in DOMAIN jobs THEN Goto(s, "saveDownloading")
       ELSE Goto(s, "done")
  /\ UNCHANGED <<env, preview, probe, now, storage, sweep, users, jobs, req, segs, jobsBuf, usersBuf, tempDir,
                 crashed, regPc, regBuf, refunds, debits>>

\* await job.save() with status 'downloading'; tempDir is named and mkdir issued
DbPlSaveDownloading(s) ==
  /\ Running(s, "saveDownloading")
  /\ env.variant = "db"
  /\ \E ok \in Outcomes :
       IF ok
       THEN /\ jobs' = [jobs EXCEPT ![s].status = "downloading"]
            /\ tempDir' = [tempDir EXCEPT ![s] = "named"]
            /\ Goto(s, "mkdir")
       ELSE /\ Throw(s)
            /\ UNCHANGED <<jobs, tempDir>>
  /\ UNCHANGED <<env, preview, probe, now, storage, sweep, users, req, segs, jobsBuf, usersBuf,
                 crashed, regPc, regBuf, refunds, debits>>

\* await fs.mkdir(tempDir, { recursive: true })
DbPlMkdir(s) ==
  /\ Running(s, "mkdir")
  /\ env.variant = "db"
  /\ \E ok \in Outcomes :
       IF ok
       THEN /\ tempDir' = [tempDir EXCEPT ![s] = "created"]
            /\ Goto(s, "download")
       ELSE /\ Throw(s)
            /\ UNCHANGED tempDir
  /\ UNCHANGED <<env, preview, probe, now, storage, sweep, users, jobs, req, segs, jobsBuf, usersBuf,
                 crashed, regPc, regBuf, refunds, debits>>

\* await exec(job.youtubeUrl, ...); job.status = 'processing'
DbPlDownload(s) ==
  /\ Running(s, "download")
  /\ env.variant = "db"
  /\ \E ok \in Outcomes : IF ok THEN Goto(s, "saveProcessing") ELSE Throw(s)
  /\ UNCHANGED <<env, preview, probe, now, storage, sweep, users, jobs, req, segs, jobsBuf, usersBuf, tempDir,
                 crashed, regPc, regBuf, refunds, debits>>

\* await job.save() with status 'processing'
DbPlSaveProcessing(s) ==
  /\ Running(s, "saveProcessing")
  /\ env.variant = "db"
  /\ \E ok \in Outcomes :
       IF ok
       THEN /\ jobs' = [jobs EXCEPT ![s].status = "processing"]
            /\ Goto(s, IF req[s].subs THEN "audio" ELSE "segments")
       ELSE /\ Throw(s)
            /\ UNCHANGED jobs
  /\ UNCHANGED <<env, preview, probe, now, storage, sweep, users, req, segs, jobsBuf, usersBuf, tempDir,
                 crashed, regPc, regBuf, refunds, debits>>

\* await extractAudio(...); job.segments = generateMockSubtitles(...)
DbPlExtractAudio(s) ==
  /\ Running(s, "audio")
  /\ env.variant = "db"
  /\ \E ok \in Outcomes :
       IF ok
       THEN /\ segs' = [segs EXCEPT ![s] = generateMockSubtitles(req[s].n)]
            /\ Goto(s, "segments")
       ELSE /\ Throw(s)
            /\ UNCHANGED segs
  /\ UNCHANGED <<env, preview, probe, now, storage, sweep, users, jobs, req, jobsBuf, usersBuf, tempDir,
                 crashed, regPc, regBuf, refunds, debits>>

\* the loop: each turn awaits getVideoDuration and processSegment (transcode,
\* thumbnail, two uploads) and assigns job.segments[i]; any of them may throw;
\* after the last turn job.status = 'completed' and job.completedAt are set
\* in memory and job.save() issued
DbPlSegments(s) ==
  /\ Running(s, "segments")
  /\ env.variant = "db"
  /\ \E ok \in Outcomes :
       IF ok
       THEN /\ \E D \in env.durations :
                 /\ probe' = [probe EXCEPT ![s] = D]
                 /\ segs' = [segs EXCEPT ![s] =
                      DbSegmentLoop(@, 0, req[s].n, req[s].id, req[s].d, D)]
            /\ storage' = storage \cup UploadedKeys(segs'[s])
            /\ Goto(s, "saveCompleted")
       ELSE /\ Throw(s)
            /\ UNCHANGED <<segs, probe, storage>>
  /\ UNCHANGED <<env, preview, now, sweep, users, jobs, req, jobsBuf, usersBuf, tempDir,
                 crashed, regPc, regBuf, refunds, debits>>

\* await job.save() with status 'completed', completedAt and the segments
DbPlSaveCompleted(s) ==
  /\ Running(s, "saveCompleted")
  /\ env.variant = "db"
  /\ \E ok \in Outcomes :
       IF ok
       THEN /\ jobs' = [jobs EXCEPT ![s].status = "completed",
                                    ![s].completedAt = TRUE,
                                    ![s].segments = segs[s]]
            /\ Goto(s, "rm")
       ELSE /\ Throw(s)
            /\ UNCHANGED jobs
  /\ UNCHANGED <<env, preview, probe, now, storage, sweep, users, req, segs, jobsBuf, usersBuf, tempDir,
                 crashed, regPc, regBuf, refunds, debits>>

\* await fs.rm(tempDir, { recursive: true, force: true }), still inside the try
DbPlRm(s) ==
  /\ Running(s, "rm")
  /\ env.variant = "db"
  /\ \E ok \in Outcomes :
       IF ok
       THEN /\ tempDir' = [tempDir EXCEPT ![s] = "removed"]
            /\ Goto(s, "done")
            /\ Forget(s)
       ELSE /\ Throw(s)
            /\ UNCHANGED <<tempDir, segs, usersBuf>>
  /\ UNCHANGED <<env, preview, probe, now, storage, sweep, users, jobs, req, jobsBuf,
                 crashed, regPc, regBuf, refunds, debits>>

\* catch: const job = await Job.findById(jobId); if (job) job.status = 'failed'
DbCatchFind(s) ==
  /\ Running(s, "catchFind")
  /\ env.variant = "db"
  /\ \E ok \in Outcomes :
       IF ~ok THEN Escape(s)
       ELSE IF s \in DOMAIN jobs
       THEN Goto(s, "catchSave") /\ UNCHANGED <<crashed, segs, usersBuf>>
       ELSE Goto(s, "done") /\ Forget(s) /\ UNCHANGED crashed
  /\ UNCHANGED <<env, preview, probe, now, storage, sweep, users, jobs, req, jobsBuf, tempDir,
                 regPc, regBuf, refunds, debits>>

\* catch: await job.save() with status 'failed'; it throws when the document
\* is no longer in the collection
DbCatchSaveFailed(s) ==
  /\ Running(s, "catchSave")
  /\ env.variant = "db"
  /\ \E ok \in Outcomes :
       IF ok /\ s \in DOMAIN jobs
       THEN /\ jobs' = [jobs EXCEPT ![s].status = "failed"]
            /\ Goto(s, "catchUser")
            /\ UNCHANGED <<crashed, segs, usersBuf>>
       ELSE /\ Escape(s)
            /\ UNCHANGED jobs
  /\ UNCHANGED <<env, preview, probe, now, storage, sweep, users, req, jobsBuf, tempDir,
                 regPc, regBuf, refunds, debits>>

\* catch: const user = await User.findById(job.userId);
\* if (user) user.credits += job.creditsUsed
DbCatchFindUser(s) ==
  /\ Running(s, "catchUser")
  /\ env.variant = "db"
  /\ \E ok \in Outcomes :
       IF ~ok THEN Escape(s)
       ELSE IF req[s].owner \in DOMAIN users
       THEN /\ usersBuf' = [usersBuf EXCEPT ![s] =
                 (req[s].owner :> users[req[s].owner] + req[s].cost)]
            /\ Goto(s, "refund")
            /\ UNCHANGED <<crashed, segs>>
       ELSE Goto(s, "done") /\ Forget(s) /\ UNCHANGED crashed
  /\ UNCHANGED <<env, preview, probe, now, storage, sweep, users, jobs, req, jobsBuf, tempDir,
                 regPc, regBuf, refunds, debits>>

\* catch: await user.save()
DbCatchRefund(s) ==
  /\ Running(s, "refund")
  /\ env.variant = "db"
  /\ \E ok \in Outcomes :
       IF ok
       THEN /\ users' = usersBuf[s] @@ users
            /\ refunds' = [refunds EXCEPT ![s] = @ + 1]
            /\ Goto(s, "done")
            /\ Forget(s)
            /\ UNCHANGED crashed
       ELSE /\ Escape(s)
            /\ UNCHANGED <<users, refunds>>
  /\ UNCHANGED <<env, preview, probe, now, storage, sweep, jobs, req, jobsBuf, tempDir, regPc, regBuf, debits>>

----------------------------------------------------------------------------
(* File-backed variant: POST /api/register *)

\* readUsers() lands; the email check passes; after bcrypt.hash the new user
\* is pushed onto the array that was read and writeUsers(users) is issued
FsRegisterRead(u) ==
  /\ ~crashed
  /\ env.variant = "file"
  /\ u \in env.userIds
  /\ regPc[u] = "idle"
  /\ Room
  /\ u \notin DOMAIN users
  /\ \E ok \in Outcomes :
       IF ok
       THEN /\ regBuf' = [regBuf EXCEPT ![u] = (u :> InitialCredits) @@ users]
            /\ regPc' = [regPc EXCEPT ![u] = "write"]
       ELSE UNCHANGED <<regBuf, regPc>>
  /\ UNCHANGED <<env, preview, probe, now, storage, sweep, users, jobs, pc, req, segs, jobsBuf, usersBuf, tempDir,
                 crashed, refunds, debits>>

\* writeUsers(users) lands: users.json is replaced by the array held in memory
FsRegisterWrite(u) ==
  /\ ~crashed
  /\ env.variant = "file"
  /\ regPc[u] = "write"
  /\ \E ok \in Outcomes :
       IF ok
       THEN /\ users' = regBuf[u]
            /\ regPc' = [regPc EXCEPT ![u] = "done"]
       ELSE /\ regPc' = [regPc EXCEPT ![u] = "idle"]
            /\ UNCHANGED users
  /\ regBuf' = [regBuf EXCEPT ![u] = EmptyFile]
  /\ UNCHANGED <<env, preview, probe, now, storage, sweep, jobs, pc, req, segs, jobsBuf, usersBuf, tempDir,
                 crashed, refunds, debits>>

----------------------------------------------------------------------------
(* File-backed variant: POST /api/jobs *)

\* authMiddleware's readUsers() lands; the handler checks the credits, fetches
\* the video info (caught when it fails), builds the job and issues readJobs()
FsSubmitAuth(s, u) ==
  /\ ~crashed
  /\ env.variant = "file"
  /\ NextSlot(s)
  /\ u \in DOMAIN users
  /\ \E url \in env.urls :
     LET r == [owner |-> u, credits |-> users[u], d |-> FileInput.d,
               n |-> FileInput.n, subs |-> FileInput.subs,
               cost |-> FileTotalCost, resp |-> 0, url |-> url,
               id |-> 0, createdAt |-> 0, balance |-> users[u]]
     IN IF users[u] < FileTotalCost
        THEN /\ req' = [req EXCEPT ![s] = [r EXCEPT !.resp = 402]]
             /\ Goto(s, "rejected")
             /\ UNCHANGED now
        ELSE /\ Elapse(env.gaps)
             /\ req' = [req EXCEPT ![s] = [r EXCEPT !.id = now', !.createdAt = now']]
             /\ Goto(s, "readJobs")
  /\ UNCHANGED <<env, preview, probe, storage, sweep, users, jobs, segs, jobsBuf, usersBuf, tempDir,
                 crashed, regPc, regBuf, refunds, debits>>

\* a throw inside the handler's try: res.status(500)
Fs500(s) ==
  /\ req' = [req EXCEPT ![s].resp = 500]
  /\ Goto(s, "error500")

\* const jobs = await readJobs(); jobs.push(job); writeJobs(jobs) is issued
FsSubmitReadJobs(s) ==
  /\ Running(s, "readJobs")
  /\ env.variant = "file"
  /\ \E ok \in Outcomes :
       IF ok
       THEN /\ jobsBuf' = [jobsBuf EXCEPT ![s] =
                 (s :> NewJob(req[s].id, NextPos(jobs), req[s].owner, req[s].d, req[s].n,
                              req[s].cost, req[s].createdAt)) @@ jobs]
            /\ Goto(s, "writeJobs")
            /\ UNCHANGED req
       ELSE /\ Fs500(s)
            /\ UNCHANGED jobsBuf
  /\ UNCHANGED <<env, preview, probe, now, storage, sweep, users, jobs, segs, usersBuf, tempDir,
                 crashed, regPc, regBuf, refunds, debits>>

\* writeJobs(jobs) lands; readUsers() is issued
FsSubmitWriteJobs(s) ==
  /\ Running(s, "writeJobs")
  /\ env.variant = "file"
  /\ \E ok \in Outcomes :
       IF ok
       THEN /\ jobs' = jobsBuf[s]
            /\ Goto(s, "readUsers")
            /\ UNCHANGED req
       ELSE /\ Fs500(s)
            /\ UNCHANGED jobs
  /\ jobsBuf' = [jobsBuf EXCEPT ![s] = EmptyFile]
  /\ UNCHANGED <<env, preview, probe, now, storage, sweep, users, segs, usersBuf, tempDir,
                 crashed, regPc, regBuf, refunds, debits>>

\* const users = await readUsers(); if the user is found its credits are
\* decreased in the array and writeUsers(users) is issued; if not, the
\* pipeline is started and the response sent
FsSubmitReadUsers(s) ==
  /\ Running(s, "readUsers")
  /\ env.variant = "file"
  /\ \E ok \in Outcomes :
       IF ~ok THEN Fs500(s) /\ UNCHANGED usersBuf
       ELSE IF req[s].owner \in DOMAIN users
       THEN /\ usersBuf' = [usersBuf EXCEPT ![s] =
                 [users EXCEPT ![req[s].owner] = @ - FileTotalCost]]
            /\ Goto(s, "writeUsers")
            /\ UNCHANGED req
       ELSE /\ req' = [req EXCEPT ![s].resp = 200]
            /\ Goto(s, "plRead")
            /\ UNCHANGED usersBuf
  /\ UNCHANGED <<env, preview, probe, now, storage, sweep, users, jobs, segs, jobsBuf, tempDir,
                 crashed, regPc, regBuf, refunds, debits>>

\* writeUsers(users) lands; processJobInBackground(job) runs to its first
\* await and the response is sent
FsSubmitWriteUsers(s) ==
  /\ Running(s, "writeUsers")
  /\ env.variant = "file"
  /\ \E ok \in Outcomes :
       IF ok
       THEN /\ users' = usersBuf[s]
            /\ debits' = [debits EXCEPT ![s] = @ + 1]
            /\ req' = [req EXCEPT ![s].resp = 200]
            /\ Goto(s, "plRead")
       ELSE /\ Fs500(s)
            /\ UNCHANGED <<users, debits>>
  /\ usersBuf' = [usersBuf EXCEPT ![s] = EmptyFile]
  /\ UNCHANGED <<env, preview, probe, now, storage, sweep, jobs, segs, jobsBuf, tempDir,
                 crashed, regPc, regBuf, refunds>>

----------------------------------------------------------------------------
(* File-backed variant: processJobInBackground(job) *)

\* an error thrown inside the try block: the catch block logs and issues readJobs()
FsThrow(s) == Goto(s, "catchRead")

\* const jobs = await readJobs(); if the job is found its status is set to
\* 'processing' in the array and writeJobs(jobs) is issued; if not, tempDir is
\* named and mkdir issued
FsPlReadJobs(s) ==
  /\ Running(s, "plRead")
  /\ env.variant = "file"
  /\ \E ok \in Outcomes :
       IF ~ok THEN FsThrow(s) /\ UNCHANGED <<jobsBuf, tempDir>>
       ELSE IF FindIndex(jobs, req[s].id) # 0
       THEN /\ jobsBuf' = [jobsBuf EXCEPT ![s] =
                 [jobs EXCEPT ![FindIndex(jobs, req[s].id)].status = "processing"]]
            /\ Goto(s, "plWriteProcessing")
            /\ UNCHANGED tempDir
       ELSE /\ tempDir' = [tempDir EXCEPT ![s] = "named"]
            /\ Goto(s, "plMkdir")
            /\ UNCHANGED jobsBuf
  /\ UNCHANGED <<env, preview, probe, now, storage, sweep, users, jobs, req, segs, usersBuf,
                 crashed, regPc, regBuf, refunds, debits>>

\* writeJobs(jobs) lands; tempDir is named and mkdir issued
FsPlWriteProcessing(s) ==
  /\ Running(s, "plWriteProcessing")
  /\ env.variant = "file"
  /\ \E ok \in Outcomes :
       IF ok
       THEN /\ jobs' = jobsBuf[s]
            /\ tempDir' = [tempDir EXCEPT ![s] = "named"]
            /\ Goto(s, "plMkdir")
       ELSE /\ FsThrow(s)
            /\ UNCHANGED <<jobs, tempDir>>
  /\ jobsBuf' = [jobsBuf EXCEPT ![s] = EmptyFile]
  /\ UNCHANGED <<env, preview, probe, now, storage, sweep, users, req, segs, usersBuf,
                 crashed, regPc, regBuf, refunds, debits>>

\* await fs.mkdir(tempDir); await fs.mkdir(outputDir): the first may throw
\* (no directory) or the second (tempDir exists)
FsPlMkdir(s) ==
  /\ Running(s, "plMkdir")
  /\ env.variant = "file"
  /\ \E ok \in Outcomes :
       IF ok
       THEN /\ tempDir' = [tempDir EXCEPT ![s] = "created"]
            /\ Goto(s, "plDownload")
       ELSE /\ \E made \in {"named", "created"} : tempDir' = [tempDir EXCEPT ![s] = made]
            /\ FsThrow(s)
  /\ UNCHANGED <<env, preview, probe, now, storage, sweep, users, jobs, req, segs, jobsBuf, usersBuf,
                 crashed, regPc, regBuf, refunds, debits>>

\* await exec(job.youtubeUrl, ...); const duration = await getVideoDuration(sourceVideo)
FsPlDownload(s) ==
  /\ Running(s, "plDownload")
  /\ env.variant = "file"
  /\ \E ok \in Outcomes :
       IF ok
       THEN /\ \E D \in env.durations : probe' = [probe EXCEPT ![s] = D]
            /\ Goto(s, "plSegments")
       ELSE /\ FsThrow(s)
            /\ UNCHANGED probe
  /\ UNCHANGED <<env, preview, now, storage, sweep, users, jobs, req, segs, jobsBuf, usersBuf, tempDir,
                 crashed, regPc, regBuf, refunds, debits>>

\* the loop: each turn awaits createShort, generateThumbnail, two uploads and
\* a stat, then segments.push({...}); any of them may throw; after the last
\* turn readJobs() is issued
FsPlSegments(s) ==
  /\ Running(s, "plSegments")
  /\ env.variant = "file"
  /\ \E ok \in Outcomes :
       IF ok
       THEN /\ segs' = [segs EXCEPT ![s] =
                 FsSegmentLoop(<<>>, 0, FileSegmentCount, req[s].owner, req[s].id, probe[s])]
            /\ storage' = storage \cup UploadedKeys(segs'[s])
            /\ Goto(s, "plRead2")
       ELSE /\ FsThrow(s)
            /\ UNCHANGED <<segs, storage>>
  /\ UNCHANGED <<env, preview, probe, now, sweep, users, jobs, req, jobsBuf, usersBuf, tempDir,
                 crashed, regPc, regBuf, refunds, debits>>

\* const updatedJobs = await readJobs(); if the job is found, status,
\* completedAt and segments are set in the array and writeJobs issued
FsPlReadJobs2(s) ==
  /\ Running(s, "plRead2")
  /\ env.variant = "file"
  /\ \E ok \in Outcomes :
       IF ~ok THEN FsThrow(s) /\ UNCHANGED jobsBuf
       ELSE IF FindIndex(jobs, req[s].id) # 0
       THEN /\ jobsBuf' = [jobsBuf EXCEPT ![s] =
                 [jobs EXCEPT ![FindIndex(jobs, req[s].id)].status = "completed",
                              ![FindIndex(jobs, req[s].id)].completedAt = TRUE,
                              ![FindIndex(jobs, req[s].id)].segments = segs[s]]]
            /\ Goto(s, "plWriteCompleted")
       ELSE /\ Goto(s, "cleanup")
            /\ UNCHANGED jobsBuf
  /\ UNCHANGED <<env, preview, probe, now, storage, sweep, users, jobs, req, segs, usersBuf, tempDir,
                 crashed, regPc, regBuf, refunds, debits>>

\* writeJobs(updatedJobs) lands
FsPlWriteCompleted(s) ==
  /\ Running(s, "plWriteCompleted")
  /\ env.variant = "file"
  /\ \E ok \in Outcomes :
       IF ok
       THEN /\ jobs' = jobsBuf[s]
            /\ Goto(s, "cleanup")
       ELSE /\ FsThrow(s)
            /\ UNCHANGED jobs
  /\ jobsBuf' = [jobsBuf EXCEPT ![s] = EmptyFile]
  /\ UNCHANGED <<env, preview, probe, now, storage, sweep, users, req, segs, usersBuf, tempDir,
                 crashed, regPc, regBuf, refunds, debits>>

\* catch: const jobs = await readJobs(); if the job is found, status 'failed'
\* and error are set in the array and writeJobs issued; a throw is logged
FsCatchRead(s) ==
  /\ Running(s, "catchRead")
  /\ env.variant = "file"
  /\ \E ok \in Outcomes :
       IF ok /\ FindIndex(jobs, req[s].id) # 0
       THEN /\ jobsBuf' = [jobsBuf EXCEPT ![s] =
                 [jobs EXCEPT ![FindIndex(jobs, req[s].id)].status = "failed",
                              ![FindIndex(jobs, req[s].id)].error = TRUE]]
            /\ Goto(s, "catchWrite")
       ELSE /\ Goto(s, "cleanup")
            /\ UNCHANGED jobsBuf
  /\ UNCHANGED <<env, preview, probe, now, storage, sweep, users, jobs, req, segs, usersBuf, tempDir,
                 crashed, regPc, regBuf, refunds, debits>>

\* catch: writeJobs(jobs) lands; a throw is logged
FsCatchWrite(s) ==
  /\ Running(s, "catchWrite")
  /\ env.variant = "file"
  /\ \E ok \in Outcomes :
       IF ok THEN jobs' = jobsBuf[s] ELSE UNCHANGED jobs
  /\ Goto(s, "cleanup")
  /\ jobsBuf' = [jobsBuf EXCEPT ![s] = EmptyFile]
  /\ UNCHANGED <<env, preview, probe, now, storage, sweep, users, req, segs, usersBuf, tempDir,
                 crashed, regPc, regBuf, refunds, debits>>

\* finally: if (tempDir) await fs.rm(tempDir, ...); a throw is logged
FsCleanup(s) ==
  /\ Running(s, "cleanup")
  /\ env.variant = "file"
  /\ \E ok \in Outcomes :
       IF ok /\ tempDir[s] # "none"
       THEN tempDir' = [tempDir EXCEPT ![s] = "removed"]
       ELSE UNCHANGED tempDir
  /\ Goto(s, "done")
  /\ Forget(s)
  /\ UNCHANGED <<env, preview, probe, now, storage, sweep, users, jobs, req, jobsBuf,
                 crashed, regPc, regBuf, refunds, debits>>

----------------------------------------------------------------------------
(* Database-backed variant: the cleanup task of setInterval *)

\* line 17 imports S3Client, PutObjectCommand and GetObjectCommand only:
\* DeleteObjectCommand is no name of the database-backed server
DeleteObjectCommandImported == FALSE

\* the documents Job.find returns, in the order of their ids
RECURSIVE FindResult(_, _)
FindResult(file, ids) ==
  IF ids = {} THEN <<>>
  ELSE LET k == CHOOSE m \in ids : \A h \in ids : m <= h
       IN <<file[k]>> \o FindResult(file, ids \ {k})

\* Job.find({ createdAt: { $lt: sevenDaysAgo }, status: 'completed' })
OldJobs(file, sevenDaysAgo) ==
  {k \in DOMAIN file : file[k].createdAt < sevenDaysAgo /\ file[k].status = "completed"}

\* for (const segment of job.segments) if (segment.storageKey) try { ... }:
\* the keys the loop tries to delete
TriedKeys(job) ==
  {job.segments[i].storageKey : i \in 1..Len(job.segments)} \ {NoKey}

\* the inner loop over the first document of the queue, up to
\* `await job.deleteOne()`: new DeleteObjectCommand(...) throws a
\* ReferenceError for every key, which the inner catch logs, so that no
\* delete is sent and the loop has no await
SweepSegments(queue, sw) ==
  IF queue = <<>>
  THEN [sw EXCEPT !.pc = "idle", !.queue = queue]
  ELSE IF DeleteObjectCommandImported
  THEN [sw EXCEPT !.pc = "deleteOne", !.queue = queue,
                  !.issued = @ \cup TriedKeys(Head(queue))]
  ELSE [sw EXCEPT !.pc = "deleteOne", !.queue = queue,
                  !.threw = @ \cup TriedKeys(Head(queue))]

\* catch (error) of the task: the run ends
SweepAbort == [sweep EXCEPT !.pc = "idle", !.queue = <<>>, !.aborted = TRUE]

\* the timer fires: sevenDaysAgo is computed and Job.find issued
SweepStart ==
  /\ ~crashed
  /\ env.variant = "db"
  /\ sweep.pc = "idle"
  /\ sweep.runs < env.maxSweeps
  /\ Elapse(env.sweepGaps)
  /\ sweep' = [sweep EXCEPT !.pc = "find", !.cutoff = now' - RetentionWindow,
                            !.runs = @ + 1, !.selected = {}, !.aborted = FALSE]
  /\ UNCHANGED <<env, preview, probe, storage, users, jobs, pc, req, segs, jobsBuf, usersBuf,
                 tempDir, crashed, regPc, regBuf, refunds, debits>>

\* Job.find lands (or throws); the task runs to the first job.deleteOne()
SweepFind ==
  /\ ~crashed
  /\ sweep.pc = "find"
  /\ \E ok \in Outcomes :
       IF ok
       THEN sweep' = SweepSegments(FindResult(jobs, OldJobs(jobs, sweep.cutoff)),
                                   [sweep EXCEPT !.selected = OldJobs(jobs, sweep.cutoff)])
       ELSE sweep' = SweepAbort
  /\ UNCHANGED <<env, preview, probe, now, storage, users, jobs, pc, req, segs, jobsBuf, usersBuf,
                 tempDir, crashed, regPc, regBuf, refunds, debits>>

\* job.deleteOne() lands (or throws); the task runs to the next job.deleteOne()
SweepDeleteOne ==
  /\ ~crashed
  /\ sweep.pc = "deleteOne"
  /\ \E ok \in Outcomes :
       IF ok
       THEN /\ jobs' = [k \in DOMAIN jobs \ {Head(sweep.queue).id} |-> jobs[k]]
            /\ sweep' = SweepSegments(Tail(sweep.queue), sweep)
       ELSE /\ sweep' = SweepAbort
            /\ UNCHANGED jobs
  /\ UNCHANGED <<env, preview, probe, now, storage, users, pc, req, segs, jobsBuf, usersBuf,
                 tempDir, crashed, regPc, regBuf, refunds, debits>>

----------------------------------------------------------------------------
(* POST /api/preview of both variants *)

\* the preview that starts: the call before it has been answered
PreviewOf(u, in, url) ==
  [NoPreview EXCEPT !.owner = u, !.credits = users[u], !.d = in.d, !.n = in.n,
                    !.url = url, !.runs = preview.runs + 1]

\* the answer of a preview that did not reach the cost estimate
PreviewRefused(p, status) == [p EXCEPT !.pc = "answered", !.resp = status]

\* authMiddleware's User.findById lands (401 when it throws); the handler
\* tests the URL (400) and issues exec(youtubeUrl, {dumpJson})
DbPreviewAuth(u, in) ==
  /\ ~crashed
  /\ env.variant = "db"
  /\ preview.pc # "exec"
  /\ preview.runs < MaxPreviews
  /\ u \in DOMAIN users
  /\ in \in env.bodies
  /\ \E url \in env.urls, ok \in Outcomes :
       preview' = IF ~ok THEN PreviewRefused(PreviewOf(u, in, url), 401)
                  ELSE IF ~IsYoutubeUrl(url) THEN PreviewRefused(PreviewOf(u, in, url), 400)
                  ELSE [PreviewOf(u, in, url) EXCEPT !.pc = "exec"]
  /\ UNCHANGED <<env, users, jobs, pc, req, segs, jobsBuf, usersBuf, tempDir, crashed,
                 regPc, regBuf, refunds, debits, probe, now, storage, sweep>>

\* a preview answer that also writes the estimate off the owner's balance
DbPreviewAnswerBilling ==
  /\ ~crashed
  /\ env.variant = "db"
  /\ preview.pc = "exec"
  /\ preview' = [preview EXCEPT
       !.pc = "answered", !.resp = 200,
       !.totalCost = TotalCost(preview.d, preview.n),
       !.canAfford = GreaterEq(preview.credits, TotalCost(preview.d, preview.n))]
  /\ users' = [users EXCEPT ![preview.owner] =
                 Minus(preview.credits, TotalCost(preview.d, preview.n))]
  /\ UNCHANGED <<env, jobs, pc, req, segs, jobsBuf, usersBuf, tempDir, crashed,
                 regPc, regBuf, refunds, debits, probe, now, storage, sweep>>

\* exec lands, or throws into its .catch, which answers for it; the cost is
\* computed and compared with req.user.credits, and res.json sent
DbPreviewAnswer ==
  /\ ~crashed
  /\ env.variant = "db"
  /\ preview.pc = "exec"
  /\ preview' = [preview EXCEPT
       !.pc = "answered", !.resp = 200,
       !.totalCost = TotalCost(preview.d, preview.n),
       !.canAfford = GreaterEq(preview.credits, TotalCost(preview.d, preview.n))]
  /\ UNCHANGED <<env, users, jobs, pc, req, segs, jobsBuf, usersBuf, tempDir, crashed,
                 regPc, regBuf, refunds, debits, probe, now, storage, sweep>>

\* authMiddleware's readUsers() lands (401 when it throws); the handler tests
\* the URL (400) and issues exec(youtubeUrl, {dumpJson})
FsPreviewAuth(u) ==
  /\ ~crashed
  /\ env.variant = "file"
  /\ preview.pc # "exec"
  /\ preview.runs < MaxPreviews
  /\ u \in DOMAIN users
  /\ \E url \in env.urls, ok \in Outcomes :
       preview' = IF ~ok THEN PreviewRefused(PreviewOf(u, FileInput, url), 401)
                  ELSE IF ~IsYoutubeUrl(url)
                  THEN PreviewRefused(PreviewOf(u, FileInput, url), 400)
                  ELSE [PreviewOf(u, FileInput, url) EXCEPT !.pc = "exec"]
  /\ UNCHANGED <<env, users, jobs, pc, req, segs, jobsBuf, usersBuf, tempDir, crashed,
                 regPc, regBuf, refunds, debits, probe, now, storage, sweep>>

\* exec lands, or throws into the inner catch; totalCost is 25, compared
\* with req.user.credits, and res.json sent
FsPreviewAnswer ==
  /\ ~crashed
  /\ env.variant = "file"
  /\ preview.pc = "exec"
  /\ preview' = [preview EXCEPT
       !.pc = "answered", !.resp = 200,
       !.totalCost = FileTotalCost,
       !.canAfford = preview.credits >= FileTotalCost]
  /\ UNCHANGED <<env, users, jobs, pc, req, segs, jobsBuf, usersBuf, tempDir, crashed,
                 regPc, regBuf, refunds, debits, probe, now, storage, sweep>>

----------------------------------------------------------------------------
(* Specification *)

NextDb ==
  \/ \E u \in UserIds : DbRegister(u)
  \/ \E s \in Slots, u \in UserIds, in \in env.bodies : DbSubmitAuth(s, u, in)
  \/ \E s \in Slots : DbSubmitDebit(s)
  \/ \E s \in Slots : DbSubmitCreate(s)
  \/ \E s \in Slots : DbPlFind(s)
  \/ \E s \in Slots : DbPlSaveDownloading(s)
  \/ \E s \in Slots : DbPlMkdir(s)
  \/ \E s \in Slots : DbPlDownload(s)
  \/ \E s \in Slots : DbPlSaveProcessing(s)
  \/ \E s \in Slots : DbPlExtractAudio(s)
  \/ \E s \in Slots : DbPlSegments(s)
  \/ \E s \in Slots : DbPlSaveCompleted(s)
  \/ \E s \in Slots : DbPlRm(s)
  \/ \E s \in Slots : DbCatchFind(s)
  \/ \E s \in Slots : DbCatchSaveFailed(s)
  \/ \E s \in Slots : DbCatchFindUser(s)
  \/ \E s \in Slots : DbCatchRefund(s)

NextFileRequests ==
  \/ \E u \in UserIds : FsRegisterRead(u)
  \/ \E u \in UserIds : FsRegisterWrite(u)
  \/ \E s \in Slots, u \in UserIds : FsSubmitAuth(s, u)
  \/ \E s \in Slots : FsSubmitReadJobs(s)
  \/ \E s \in Slots : FsSubmitWriteJobs(s)
  \/ \E s \in Slots : FsSubmitReadUsers(s)
  \/ \E s \in Slots : FsSubmitWriteUsers(s)

NextFilePipelines ==
  \/ \E s \in Slots : FsPlReadJobs(s)
  \/ \E s \in Slots : FsPlWriteProcessing(s)
  \/ \E s \in Slots : FsPlMkdir(s)
  \/ \E s \in Slots : FsPlDownload(s)
  \/ \E s \in Slots : FsPlSegments(s)
  \/ \E s \in Slots : FsPlReadJobs2(s)
  \/ \E s \in Slots : FsPlWriteCompleted(s)
  \/ \E s \in Slots : FsCatchRead(s)
  \/ \E s \in Slots : FsCatchWrite(s)
  \/ \E s \in Slots : FsCleanup(s)

NextFile == NextFileRequests \/ NextFilePipelines

Next == NextDb \/ NextFile

Spec == Init /\ [][Next]_vars

\* The database-backed server alone.
InitDb ==
  InitWith(Env("db", TRUE, MaxJobs, UserIds))

SpecDb == InitDb /\ [][NextDb]_vars

\* The file-backed server alone.
InitFile ==
  InitWith(Env("file", TRUE, MaxJobs, UserIds))

SpecFile == InitFile /\ [][NextFile]_vars

\* The request handlers of the file-backed server alone, with one user and no
\* failing external call, for as many submits as it takes to spend the initial
\* credits: the runs in which no background pipeline has taken a step yet.
InitLedger ==
  InitWith(Env("file", FALSE, LedgerJobs, {"u1"}))

SpecLedger == InitLedger /\ [][NextFileRequests]_vars

\* One job of either server, whose failure handler (the catch block of
\* processJobInBackground) is entered again after it has run.
InitHandler ==
  \E v \in {"db", "file"} :
    InitWith(Env(v, TRUE, 1, {"u1"}))

RerunFailureHandler(s) ==
  /\ Running(s, "done")
  /\ s \in DOMAIN jobs
  /\ jobs[s].status = "failed"
  /\ refunds[s] < MaxHandlerRuns
  /\ Goto(s, IF env.variant = "db" THEN "catchFind" ELSE "catchRead")
  /\ UNCHANGED <<env, preview, probe, now, storage, sweep, users, jobs, req, segs, jobsBuf, usersBuf, tempDir,
                 crashed, regPc, regBuf, refunds, debits>>

NextHandler ==
  \/ Next
  \/ \E s \in Slots : RerunFailureHandler(s)

SpecHandler == InitHandler /\ [][NextHandler]_vars

\* One submit to either server, whose youtubeUrl is a YouTube address or not.
InitValidation ==
  \E v \in {"db", "file"} :
    InitWith([Env(v, TRUE, 1, {"u1"}) EXCEPT !.urls = Urls])

SpecValidation == InitValidation /\ [][Next]_vars

\* One job of either server, over a five-minute source or a twenty-second one.
InitPlanner ==
  \E v \in {"db", "file"} :
    InitWith([Env(v, TRUE, 1, {"u1"}) EXCEPT !.durations = {LongVideo, ShortVideo}])

SpecPlanner == InitPlanner /\ [][Next]_vars

\* The database-backed server with its cleanup task: one user, jobs of two
\* segments, and runs of the task a day or a whole retention window after
\* the clock was last read.
InitSweeper ==
  InitWith([Env("db", TRUE, MaxJobs, {"u1"}) EXCEPT
              !.bodies = {[d |-> 30, n |-> 2, subs |-> TRUE]},
              !.maxSweeps = MaxSweeps,
              !.sweepGaps = {Day, RetentionWindow}])

NextSweeper ==
  \/ NextDb
  \/ SweepStart
  \/ SweepFind
  \/ SweepDeleteOne

SpecSweeper == InitSweeper /\ [][NextSweeper]_vars

\* One job of either server under the event loop's scheduling: every call
\* that is awaited returns or throws, and the continuation that waits for it
\* is then run, so a step that stays possible is eventually taken.
SpecLive == InitHandler /\ [][Next]_vars /\ WF_vars(Next)

\* Request bodies tried against POST /api/preview and POST /api/jobs of the
\* database-backed server: one that costs 10, one that costs the whole
\* initial balance, one that costs more, one priced by the default, and one
\* whose segmentCount is not a number.
PreviewBodies ==
  { [d |-> 30, n |-> 2,   subs |-> TRUE],
    [d |-> 30, n |-> 20,  subs |-> TRUE],
    [d |-> 60, n |-> 13,  subs |-> TRUE],
    [d |-> 45, n |-> 1,   subs |-> TRUE],
    [d |-> 30, n |-> NaN, subs |-> TRUE] }

\* One user of either server who previews and submits.
InitPreview ==
  \E v \in {"db", "file"} :
    InitWith([Env(v, TRUE, 1, {"u1"}) EXCEPT !.urls = Urls, !.bodies = PreviewBodies])

NextPreview ==
  \/ Next
  \/ \E u \in UserIds, in \in env.bodies : DbPreviewAuth(u, in)
  \/ DbPreviewAnswer
  \/ \E u \in UserIds : FsPreviewAuth(u)
  \/ FsPreviewAnswer

SpecPreview == InitPreview /\ [][NextPreview]_vars

\* The file-backed server with one user, whose submits may read the same
\* millisecond off the clock.
InitIds ==
  InitWith([Env("file", TRUE, MaxJobs, {"u1"}) EXCEPT !.gaps = {0, 1}])

SpecIds == InitIds /\ [][NextFile]_vars

----------------------------------------------------------------------------
(* Claims *)

\* the pipeline of slot s has ended
Ended(s) == pc[s] = "done"

\* the request of slot s has been answered
Answered(s) == pc[s] \notin HandlerPcs \cup {"idle"}

Stored(s) == s \in DOMAIN jobs

\* C1: for every job that ends failed the owner's balance has been increased
\* by the job's reserved credits exactly once, so that a submit followed by
\* the job's failure restores the balance the owner had before the submit.
C1_FailedJobRefundedOnce ==
  \A s \in Slots :
    (Ended(s) /\ Stored(s) /\ jobs[s].status = "failed") =>
      /\ refunds[s] = 1
      /\ (\A t \in Slots \ {s} : pc[t] = "idle") =>
           users[jobs[s].owner] = InitialCredits

\* C2: after any interleaving of submit, completion and failure events every
\* owner's stored credit balance is >= 0.
C2_BalanceNeverNegative ==
  \A u \in DOMAIN users : users[u] >= 0

\* C3: once a job's stored status is completed or failed it never changes again.
C3_TerminalStatusFinal ==
  [][\A s \in DOMAIN jobs :
       (jobs[s].status \in {"completed", "failed"} /\ s \in DOMAIN jobs')
         => jobs'[s].status = jobs[s].status]_vars

\* C4: once a submit has been answered, the job record exists exactly when the
\* job's cost has been deducted: never a record without the deduction, never a
\* deduction without the record.
C4_DebitAndCreateAtomic ==
  \A s \in Slots : Answered(s) => (Stored(s) <=> debits[s] = 1)

\* C5: running the failure handler twice for the same job increases the
\* owner's balance by the job's reserved credits only once.
C5_RefundIdempotent ==
  \A s \in Slots : refunds[s] <= 1

\* C6: every job record has creditsUsed = unit price of its tier * segment
\* count (15s = 2, 30s = 5, 60s = 8), and the debit of a submit lowers the
\* owner's stored balance by exactly that amount, once per created job.
C6_ReservedAndDebitedOnce ==
  /\ [](\A s \in DOMAIN jobs :
          /\ jobs[s].segmentDuration \in DOMAIN PRICES
          /\ jobs[s].creditsUsed = PRICES[jobs[s].segmentDuration] * jobs[s].segmentCount)
  /\ [][\A s \in Slots :
          debits'[s] # debits[s] =>
            users'[req[s].owner] = users[req[s].owner] - req[s].cost]_vars
  /\ [](\A s \in Slots : (Answered(s) /\ Stored(s)) => debits[s] = 1)

\* C7: an error raised during a job's background execution never leaves the
\* background task, and the pipeline ends with the job stored as failed with a
\* failure reason on its record (or as completed when no error was raised).
C7_ErrorsCaughtAndRecorded ==
  /\ ~crashed
  /\ \A s \in Slots :
       (Ended(s) /\ Stored(s)) =>
         /\ jobs[s].status \in {"completed", "failed"}
         /\ jobs[s].status = "failed" => jobs[s].error

\* C8: when a job's pipeline has ended, the temporary directory it created
\* has been removed.
C8_TempDirRemoved ==
  \A s \in Slots : Ended(s) => tempDir[s] # "created"

\* C9: whenever a job's stored status is completed, its stored segment list
\* holds exactly segmentCount entries, every index 1..segmentCount appears
\* exactly once, every entry has a clip storage key, and completedAt is set.
C9_CompletedHasAllSegments ==
  \A s \in DOMAIN jobs :
    jobs[s].status = "completed" =>
      /\ Len(jobs[s].segments) = jobs[s].segmentCount
      /\ \A k \in 1..jobs[s].segmentCount :
           Cardinality({i \in 1..Len(jobs[s].segments) :
                          jobs[s].segments[i].index = k}) = 1
      /\ \A i \in 1..Len(jobs[s].segments) : jobs[s].segments[i].storageKey # NoKey
      /\ jobs[s].completedAt

\* a completed job of several segments is stored
C9_Witness ==
  \E s \in DOMAIN jobs :
    /\ jobs[s].status = "completed"
    /\ jobs[s].segmentCount >= 2
    /\ Len(jobs[s].segments) >= 2

\* the steps the job state machine allows
AllowedSteps ==
  { <<"pending", "downloading">>, <<"downloading", "processing">>,
    <<"processing", "completed">>,
    <<"pending", "failed">>, <<"downloading", "failed">>, <<"processing", "failed">> }

\* C10: a job's stored status changes only by pending -> downloading,
\* downloading -> processing, processing -> completed, or from a state other
\* than completed to failed.
C10_OnlyAllowedSteps ==
  [][\A s \in DOMAIN jobs :
       (s \in DOMAIN jobs' /\ jobs'[s].status # jobs[s].status)
         => <<jobs[s].status, jobs'[s].status>> \in AllowedSteps]_vars

\* C11: whenever a job's stored status is pending, downloading, processing or
\* failed, its stored segment list holds fewer than segmentCount entries: a
\* full segment list is stored only together with status completed.
C11_FullListOnlyWhenCompleted ==
  \A s \in DOMAIN jobs :
    jobs[s].status # "completed" => Len(jobs[s].segments) < jobs[s].segmentCount

\* a submit of slot s is taken up in this step
Taken(s) == pc[s] = "idle" /\ pc'[s] # "idle"

\* the rejection half of C12: a submit that finds the balance below its cost
\* is answered 402 and leaves users, jobs and every pipeline as they were
RejectedChangesNothing ==
  \A s \in Slots :
    (Taken(s) /\ users[req'[s].owner] < req'[s].cost) =>
      /\ pc'[s] = "rejected"
      /\ req'[s].resp = 402
      /\ users' = users
      /\ jobs' = jobs
      /\ \A t \in Slots \ {s} : pc'[t] = pc[t]

\* the debit half of C12: no debit is written over a balance below the cost
DebitCovered ==
  \A s \in Slots :
    debits'[s] # debits[s] => users[req[s].owner] >= req[s].cost

\* C12: a submit whose cost exceeds the owner's current balance is rejected
\* with an insufficient-credit error and changes nothing: the balance is not
\* debited, no job record is created and no background task is started.
C12_InsufficientCreditRejected ==
  [][RejectedChangesNothing /\ DebitCovered]_vars

\* the request body of slot s is malformed: its source is no YouTube URL, or
\* its segment duration or segment count is outside the schema
Malformed(s) ==
  \/ ~IsYoutubeUrl(req[s].url)
  \/ ~SchemaValid(req[s].d, req[s].n)

\* C13: a submit with a malformed source reference or configuration is
\* rejected before any debit or record creation: once it is answered, no
\* debit has been written for it and no job record exists for it.
C13_MalformedRejectedBeforeDebit ==
  \A s \in Slots :
    (Answered(s) /\ Malformed(s)) =>
      /\ req[s].resp # 200
      /\ debits[s] = 0
      /\ ~Stored(s)

\* the entries of a segment list that processing has filled in
Emitted(list) == {i \in 1..Len(list) : list[i].startTime # NoTime}

\* every emitted segment of the list ends inside a source of duration D
WithinSource(list, D) ==
  \A i \in Emitted(list) :
    /\ list[i].duration > 0
    /\ list[i].startTime + list[i].duration <= D

\* C14: for every segment the pipeline emits over a source of duration D,
\* startTime + duration is at most D (the duration is clamped to
\* max(0, D - startTime)), and a segment of clamped duration 0 is not produced.
C14_SegmentsClampedToSource ==
  \A s \in Slots :
    /\ WithinSource(segs[s], probe[s])
    /\ Stored(s) => WithinSource(jobs[s].segments, probe[s])

\* the pipeline of slot s has left its segment loop by the loop's end
LoopDone(s) == pc[s] \in {"saveCompleted", "rm", "plRead2", "plWriteCompleted"}

\* the list holds N segments, the i-th with index i and start (D / N) * (i - 1)
Planned(list, N, D) ==
  /\ Len(list) = N
  /\ \A i \in 1..Len(list) :
       /\ list[i].index = i
       /\ list[i].startTime * N = D * (i - 1)
  /\ (D = 300 /\ N = 5) =>
       [i \in 1..Len(list) |-> list[i].startTime] = <<0, 60, 120, 180, 240>>

\* C15: for source duration D and segment count N, a successful pipeline run
\* produces exactly N segments with indices 1..N in order, segment i starting
\* at (D / N) * (i - 1); for D = 300 and N = 5 the starts are 0, 60, 120, 180, 240.
C15_UniformStartTimes ==
  \A s \in Slots :
    /\ LoopDone(s) => Planned(segs[s], req[s].n, probe[s])
    /\ (Stored(s) /\ jobs[s].status = "completed") =>
         Planned(jobs[s].segments, jobs[s].segmentCount, probe[s])

\* a job of five segments over a 300 second source is stored completed
C15_Witness ==
  \E s \in Slots :
    /\ Stored(s)
    /\ jobs[s].status = "completed"
    /\ jobs[s].segmentCount = 5
    /\ probe[s] = 300
    /\ Len(jobs[s].segments) = 5

\* the storage keys of a segment list
KeysOf(list) == UploadedKeys(list)

\* the key ends in {ownerId}/{jobId}/{artifactName}
OwnerJobArtifact(key, ownerId, jobId) ==
  key # NoKey =>
    /\ Len(key) >= 3
    /\ key[Len(key) - 2] = ownerId
    /\ key[Len(key) - 1] = jobId

\* C16: storage keys have the form {ownerId}/{jobId}/{artifactName}, and two
\* artifacts that belong to different jobs or to different owners never
\* receive the same storage key, also for jobs created at the same instant.
C16_StorageKeysDistinct ==
  /\ \A s \in Slots : \A key \in KeysOf(segs[s]) :
       OwnerJobArtifact(key, req[s].owner, req[s].id)
  /\ \A s, t \in Slots :
       s # t => (KeysOf(segs[s]) \ {NoKey}) \cap (KeysOf(segs[t]) \ {NoKey}) = {}
  /\ \A s, t \in DOMAIN jobs :
       s # t => (KeysOf(jobs[s].segments) \ {NoKey})
                  \cap (KeysOf(jobs[t].segments) \ {NoKey}) = {}

\* the value of Date.now() the running sweep computed its cutoff from
SweepClock == sweep.cutoff + RetentionWindow

\* the jobs the retention rule selects at the sweep's reading of the clock
DueJobs ==
  {k \in DOMAIN jobs :
     jobs[k].status = "completed" /\ SweepClock - jobs[k].createdAt >= RetentionWindow}

\* the job records deleted in this step
Removed == DOMAIN jobs \ DOMAIN jobs'

\* C17: a sweep removes a job exactly when its status is completed and its
\* age is at least the 7-day retention window: the sweep selects exactly the
\* completed jobs aged 7 days or more, and no other job is ever removed.
C17_SweepSelectsDueJobs ==
  [][/\ (sweep.pc = "find" /\ sweep'.pc # "find" /\ ~sweep'.aborted)
          => sweep'.selected = DueJobs
     /\ \A k \in Removed : k \in sweep.selected /\ k \in DueJobs]_vars

\* C18: for every job a sweep removes, a delete is issued for the clip and
\* for the thumbnail of every one of its segments before the job record is
\* deleted, so that the artifacts whose delete did not fail are gone from the
\* bucket when the record is.
C18_ArtifactsDeletedBeforeRecord ==
  [][\A k \in Removed :
       /\ KeysOf(jobs[k].segments) \ {NoKey} \subseteq sweep.issued
       /\ (KeysOf(jobs[k].segments) \ sweep.threw) \cap storage' = {}]_vars

\* the sweep has just tried the deletes of the first job of its queue, and
\* one of them threw
DeleteFailed ==
  /\ sweep'.threw # sweep.threw
  /\ sweep'.queue # <<>>

\* C19: if deleting an artifact fails during a sweep, the failure does not
\* stop the sweep: the remaining artifacts of that job are still attempted,
\* that job's record is still deleted, and the other selected jobs are
\* still processed.
C19_DeleteFailureDoesNotStopSweep ==
  [][/\ DeleteFailed =>
          /\ KeysOf(Head(sweep'.queue).segments) \ {NoKey}
                \subseteq sweep'.threw \cup sweep'.issued
          /\ sweep'.pc = "deleteOne"
          /\ ~sweep'.aborted
     /\ (sweep.pc = "deleteOne" /\ sweep' # sweep /\ ~sweep'.aborted) =>
          /\ Head(sweep.queue).id \notin DOMAIN jobs'
          /\ sweep'.queue = Tail(sweep.queue)
          /\ sweep'.queue # <<>> => sweep'.pc = "deleteOne"]_vars

\* this step writes a debit or a refund of a job of owner u
LedgerStep(u) ==
  \E s \in Slots :
    /\ req[s].owner = u
    /\ debits'[s] # debits[s] \/ refunds'[s] # refunds[s]

\* C20: an owner's stored balance changes only in the debit step of that
\* owner's own submit or in the refund step of that owner's own failed job;
\* no other operation (the registration of another user among them) changes
\* it, under any interleaving with submits and refunds.
C20_BalanceChangedOnlyByLedger ==
  [][\A u \in DOMAIN users :
       (u \in DOMAIN users' /\ users'[u] # users[u]) => LedgerStep(u)]_vars

\* this step is a step of the background pipeline of slot k
OwnPipelineStep(k) ==
  /\ pc[k] \notin HandlerPcs \cup {"idle"}
  /\ pc'[k] # pc[k]

\* C21: a created job record stays in the registry, and its stored status
\* and segments change only in a step of that job's own pipeline, under any
\* interleaving of submits and of the pipelines of two jobs.
C21_RecordWrittenOnlyByOwnPipeline ==
  [][\A k \in DOMAIN jobs :
       /\ k \in DOMAIN jobs'
       /\ (jobs'[k].status # jobs[k].status \/ jobs'[k].segments # jobs[k].segments)
            => OwnPipelineStep(k)]_vars

PreviewStep == preview' # preview

\* C23: preview changes no stored state: across every step of a preview,
\* with any body, every owner's balance and the set and contents of the job
\* records stay as they were, and no background task is started or moved.
C23_PreviewChangesNothing ==
  [][PreviewStep =>
       /\ users' = users
       /\ jobs' = jobs
       /\ pc' = pc
       /\ storage' = storage]_vars

\* a preview was answered with an estimate while a job of the owner is stored
C23_Witness ==
  /\ preview.pc = "answered"
  /\ preview.resp = 200
  /\ \E s \in DOMAIN jobs : jobs[s].owner = preview.owner

\* this step sends the 200 answer of the submit of slot s
SubmitAnswered(s) == req'[s].resp = 200 /\ req[s].resp # 200

\* the pipeline of slot s has not got past its first await: nothing is
\* downloaded, probed, cut or uploaded
PipelineNotBegun(s) ==
  /\ pc[s] \in {"find", "plRead"}
  /\ tempDir[s] = "none"
  /\ probe[s] = 0
  /\ segs[s] = <<>>

\* C24: submit answers with the new job id while the job's stored status is
\* still pending: in the step that sends the answer the job's record is
\* stored with status pending and its pipeline has done no work yet.
C24_AnsweredWhilePending ==
  [][\A s \in Slots :
       SubmitAnswered(s) =>
         /\ Stored(s)'
         /\ jobs'[s].status = "pending"
         /\ PipelineNotBegun(s)']_vars

\* the jobs owner u's submits created (answered 200) and that were not refunded
Unrefunded(u) ==
  {s \in Slots : req[s].owner = u /\ req[s].resp = 200 /\ refunds[s] = 0}

\* the sum of creditsUsed (the submit's totalCost) over the jobs of S
RECURSIVE CreditsUsed(_)
CreditsUsed(S) ==
  IF S = {} THEN 0
  ELSE LET s == CHOOSE x \in S : TRUE
       IN req[s].cost + CreditsUsed(S \ {s})

\* C25: ledger conservation: whenever no submit is in hand, an owner's stored
\* balance is the initial 100 credits minus the creditsUsed of the jobs that
\* owner's submits created and that were not refunded, also when submits of
\* one owner interleave.
C25_LedgerConservation ==
  InFlight = {} =>
    \A u \in DOMAIN users :
      users[u] = InitialCredits - CreditsUsed(Unrefunded(u))

\* the status of the job of slot s was saved as completed at some point:
\* completedAt is set in that save only and no later save clears it
SavedCompleted(s) == Stored(s) /\ jobs[s].completedAt

\* C26: a refund is given only for a job that does not end completed: no
\* refund is written for a job whose status was saved as completed, so that
\* job's cost stays deducted.
C26_NoRefundAfterCompleted ==
  \A s \in Slots : SavedCompleted(s) => refunds[s] = 0

\* C27: every job gets an identifier different from every other job's, also
\* when two submissions are handled at the same clock millisecond: no two
\* stored job records carry the same id.
C27_JobIdsDistinct ==
  \A s, t \in DOMAIN jobs : s # t => jobs[s].id # jobs[t].id

\* the submit of slot s was handled for the owner, the balance and the
\* configuration the answered preview was made for
SameQuote(s) ==
  /\ pc[s] # "idle"
  /\ preview.resp = 200
  /\ preview.owner = req[s].owner
  /\ preview.credits = req[s].balance
  /\ preview.d = req[s].d
  /\ preview.n = req[s].n

\* C28: preview and submit agree: for the same owner balance and the same
\* configuration, preview's totalCost is the amount submit sets out to
\* deduct, and preview reports the job as affordable exactly when submit
\* does not reject it for insufficient credits (402).
C28_PreviewAgreesWithSubmit ==
  \A s \in Slots :
    SameQuote(s) =>
      /\ preview.totalCost = req[s].cost
      /\ preview.canAfford <=> req[s].resp # 402

====
